---- MODULE Spec2Model ----
(***************************************************************************)
(* Model of src/event-switches.c, the switch event provider of the Mode    *)
(* Control Entity (mce).                                                   *)
(*                                                                         *)
(* The file's state is its static variables.  Around it the model keeps    *)
(* the three collaborators the file talks to, each reduced to what the     *)
(* file can observe or change:                                             *)
(*   - the datapipes (datapipe.h): the cached value of every pipe this     *)
(*     file executes, and how many times each of its three triggers is     *)
(*     attached;                                                           *)
(*   - the I/O monitor registry (mce-io.h): the monitors currently open;   *)
(*   - the control files in sysfs: whether each is writable on this device *)
(*     and the last string written to it.                                  *)
(*                                                                         *)
(* Every function of the file yields the sequence of external calls it     *)
(* makes, in program order ("events"); an action is one whole handler: it  *)
(* updates the statics and applies the handler's events to the             *)
(* collaborators.  The events of the latest handler are kept in `trace`.   *)
(*                                                                         *)
(* Enumeration values and macro strings are written by their C names.      *)
(* Payload text is a sequence of characters, looked up by Text.            *)
(***************************************************************************)
EXTENDS Integers, Sequences, FiniteSets, TLC

VARIABLES
    call_state,                       \* static call_state_t call_state
    alarm_ui_state,                   \* static alarm_ui_state_t alarm_ui_state
    old_submode,                      \* static submode_t old_submode (submode_trigger)
    cam_focus_disable_exists,         \* static gboolean
    proximity_sensor_disable_exists,  \* static gboolean
    has_flicker_key,                  \* gboolean has_flicker_key
    iomon_id,                         \* the eleven static *_iomon_id pointers
    io_monitors,                      \* registry: the I/O monitors that are open
    stale_unregisters,                \* registry: ids unregistered while not open
    triggers,                         \* datapipes: times each trigger is attached
    datapipe,                         \* datapipes: cached value of each pipe
    sysfs,                            \* control files: last string written
    w_ok,                             \* device: is the control file writable
    inits,                            \* number of mce_switches_init() calls so far
    trace,                            \* external calls made by the latest handler
    lastOp,                           \* the latest handler and its input
    cam_focus_writes                  \* the latest writes to MCE_CAM_FOCUS_DISABLE_PATH

vars == << call_state, alarm_ui_state, old_submode, cam_focus_disable_exists,
           proximity_sensor_disable_exists, has_flicker_key, iomon_id,
           io_monitors, stale_unregisters, triggers, datapipe, sysfs, w_ok,
           inits, trace, lastOp, cam_focus_writes >>

statics == << call_state, alarm_ui_state, old_submode, cam_focus_disable_exists,
              proximity_sensor_disable_exists, has_flicker_key, iomon_id >>

registry == << io_monitors, stale_unregisters, triggers, inits >>

-----------------------------------------------------------------------------
(* Bounds *)

\* mce_switches_init() is called at most this many times in a behaviour
MaxInits == 2

\* cam_focus_writes keeps this many of the latest writes
MaxLog == 3

-----------------------------------------------------------------------------
(* Values *)

NULL == 0

CallStates ==
    {"CALL_STATE_INVALID", "CALL_STATE_NONE", "CALL_STATE_RINGING", "CALL_STATE_ACTIVE"}

AlarmUiStates ==
    {"MCE_ALARM_UI_INVALID_INT32", "MCE_ALARM_UI_OFF_INT32",
     "MCE_ALARM_UI_VISIBLE_INT32", "MCE_ALARM_UI_RINGING_INT32"}

\* submode_t is a bit mask; a value is the set of the bits that are set
MCE_NORMAL_SUBMODE == {}

MCE_TKLOCK_SUBMODE == {"MCE_TKLOCK_SUBMODE"}

Submodes == SUBSET {"MCE_TKLOCK_SUBMODE", "MCE_EVEATER_SUBMODE"}

\* submode & mask
BitAnd(submode, mask) == submode \cap mask

ControlPaths == {"MCE_PROXIMITY_SENSOR_DISABLE_PATH", "MCE_CAM_FOCUS_DISABLE_PATH"}

Pipes ==
    {"device_inactive_pipe", "camera_button_pipe", "lockkey_pipe",
     "keyboard_slide_pipe", "lid_cover_pipe", "proximity_sensor_pipe",
     "usb_cable_pipe", "lens_cover_pipe"}

\* The payloads the I/O monitors deliver, by name; Text gives the characters
Payloads ==
    {"", "ope", "open", "open\n", "Open", "closed", "active", "connected",
     "disconnected"}

Text(p) ==
    CASE p = "" -> << >>
      [] p = "ope" -> <<"o", "p", "e">>
      [] p = "open" -> <<"o", "p", "e", "n">>
      [] p = "open\n" -> <<"o", "p", "e", "n", "\n">>
      [] p = "Open" -> <<"O", "p", "e", "n">>
      [] p = "closed" -> <<"c", "l", "o", "s", "e", "d">>
      [] p = "active" -> <<"a", "c", "t", "i", "v", "e">>
      [] p = "connected" -> <<"c", "o", "n", "n", "e", "c", "t", "e", "d">>
      [] p = "disconnected" ->
            <<"d", "i", "s", "c", "o", "n", "n", "e", "c", "t", "e", "d">>

\* The "active" literals of event-switches.h
MCE_CAM_LAUNCH_ACTIVE == "active"

MCE_FLICKER_KEY_ACTIVE == "closed"

MCE_KBD_SLIDE_OPEN == "open"

MCE_LID_COVER_OPEN == "open"

MCE_PROXIMITY_SENSOR_OPEN == "open"

MCE_MUSB_OMAP3_USB_CABLE_CONNECTED == "connected"

MCE_LENS_COVER_OPEN == "open"

\* What mce_read_string_from_file() can give for the proximity state file
READ_FAILED == "READ_FAILED"

ReadOutcomes == {READ_FAILED, "open\n", "closed"}

\* The sets of notification sources that fail to open in one start-up
AllStatePaths ==
    {"MCE_FLICKER_KEY_STATE_PATH", "MCE_KBD_SLIDE_STATE_PATH",
     "MCE_CAM_FOCUS_STATE_PATH", "MCE_CAM_LAUNCH_STATE_PATH",
     "MCE_LID_COVER_STATE_PATH", "MCE_PROXIMITY_SENSOR_STATE_PATH",
     "MCE_MUSB_OMAP3_USB_CABLE_STATE_PATH", "MCE_LENS_COVER_STATE_PATH",
     "MCE_MMC0_COVER_STATE_PATH", "MCE_MMC_COVER_STATE_PATH",
     "MCE_BATTERY_COVER_STATE_PATH"}

OpenFailures ==
    { {}, {"MCE_FLICKER_KEY_STATE_PATH", "MCE_CAM_FOCUS_STATE_PATH"}, AllStatePaths }

-----------------------------------------------------------------------------
(* External calls *)

Ev(op, target, val) == [op |-> op, target |-> target, val |-> val]

execute_datapipe(pipe, val) == Ev("execute_datapipe", pipe, val)

mce_write_string_to_file(path, str) == Ev("mce_write_string_to_file", path, str)

mce_read_string_from_file(path, result) ==
    Ev("mce_read_string_from_file", path, result)

\* USE_INDATA, CACHE_INDATA: the pipe caches the value it is executed with
RECURSIVE Published(_, _)
Published(dp, evs) ==
    IF evs = << >> THEN dp
    ELSE LET e == Head(evs)
         IN  Published(IF e.op = "execute_datapipe"
                       THEN [dp EXCEPT ![e.target] = e.val] ELSE dp,
                       Tail(evs))

\* A write reaches the control file when the file is writable
RECURSIVE Written(_, _)
Written(fs, evs) ==
    IF evs = << >> THEN fs
    ELSE LET e == Head(evs)
         IN  Written(IF e.op = "mce_write_string_to_file" /\ w_ok[e.target]
                     THEN [fs EXCEPT ![e.target] = e.val] ELSE fs,
                     Tail(evs))

Latest(log) ==
    IF Len(log) > MaxLog THEN SubSeq(log, Len(log) - MaxLog + 1, Len(log)) ELSE log

RECURSIVE Logged(_, _)
Logged(log, evs) ==
    IF evs = << >> THEN log
    ELSE LET e == Head(evs)
         IN  Logged(IF e.op = "mce_write_string_to_file"
                       /\ e.target = "MCE_CAM_FOCUS_DISABLE_PATH"
                    THEN Latest(Append(log, e.val)) ELSE log,
                    Tail(evs))

\* The effect of a handler's external calls on the collaborators
Effects(evs) ==
    /\ trace' = evs
    /\ datapipe' = Published(datapipe, evs)
    /\ sysfs' = Written(sysfs, evs)
    /\ cam_focus_writes' = Logged(cam_focus_writes, evs)

-----------------------------------------------------------------------------
(* strncmp(), strlen() *)

NUL == "\\0"

CharAt(s, i) == IF i <= Len(s) THEN s[i] ELSE NUL

strlen(s) == Len(s)

\* 0 when the first n characters agree (or both strings end before), else
\* nonzero; the callers test the result against 0 only
RECURSIVE strncmp_from(_, _, _, _)
strncmp_from(s1, s2, n, i) ==
    IF i > n THEN 0
    ELSE IF CharAt(s1, i) # CharAt(s2, i) THEN 1
    ELSE IF CharAt(s1, i) = NUL THEN 0
    ELSE strncmp_from(s1, s2, n, i + 1)

\* Mutant: strcmp() in place of strncmp(): the terminator is compared too
strncmp_as_strcmp(s1, s2, n) == strncmp_from(s1, s2, n + 1, 1)

strncmp(s1, s2, n) == strncmp_from(s1, s2, n, 1)

\* !strncmp(data, literal, strlen(literal))
HasLiteral(data, literal) ==
    strncmp(Text(data), Text(literal), strlen(Text(literal))) = 0

-----------------------------------------------------------------------------
(* I/O monitor callbacks: the external calls each makes for a payload *)

\* Mutant: the generic callback also reports the payload as the lid state
generic_activity_iomon_cb_as_lid(data) ==
    << execute_datapipe("device_inactive_pipe", "FALSE"),
       execute_datapipe("lid_cover_pipe",
                        IF HasLiteral(data, MCE_LID_COVER_OPEN)
                        THEN "COVER_OPEN" ELSE "COVER_CLOSED") >>

generic_activity_iomon_cb(data) ==
    << execute_datapipe("device_inactive_pipe", "FALSE") >>

camera_launch_button_iomon_cb(data) ==
    LET camera_button_state ==
            IF HasLiteral(data, MCE_CAM_LAUNCH_ACTIVE)
            THEN "CAMERA_BUTTON_LAUNCH" ELSE "CAMERA_BUTTON_UNPRESSED"
    IN  << execute_datapipe("device_inactive_pipe", "FALSE"),
           execute_datapipe("camera_button_pipe", camera_button_state) >>

lockkey_iomon_cb(data) ==
    LET lockkey_state == IF HasLiteral(data, MCE_FLICKER_KEY_ACTIVE) THEN "1" ELSE "0"
    IN  << execute_datapipe("lockkey_pipe", lockkey_state) >>

kbd_slide_iomon_cb(data) ==
    IF HasLiteral(data, MCE_KBD_SLIDE_OPEN)
    THEN << execute_datapipe("device_inactive_pipe", "FALSE"),
            execute_datapipe("keyboard_slide_pipe", "COVER_OPEN") >>
    ELSE << execute_datapipe("keyboard_slide_pipe", "COVER_CLOSED") >>

\* Mutant: a notification that repeats the cached state is dropped
lid_cover_iomon_cb_on_change(data) ==
    LET lid_cover_state ==
            IF HasLiteral(data, MCE_LID_COVER_OPEN)
            THEN "COVER_OPEN" ELSE "COVER_CLOSED"
    IN  IF datapipe["lid_cover_pipe"] = lid_cover_state THEN << >>
        ELSE IF lid_cover_state = "COVER_OPEN"
        THEN << execute_datapipe("device_inactive_pipe", "FALSE"),
                execute_datapipe("lid_cover_pipe", "COVER_OPEN") >>
        ELSE << execute_datapipe("lid_cover_pipe", "COVER_CLOSED") >>

\* Mutant: activity is generated before the payload is looked at
lid_cover_iomon_cb_always_activity(data) ==
    << execute_datapipe("device_inactive_pipe", "FALSE"),
       execute_datapipe("lid_cover_pipe",
                        IF HasLiteral(data, MCE_LID_COVER_OPEN)
                        THEN "COVER_OPEN" ELSE "COVER_CLOSED") >>

lid_cover_iomon_cb(data) ==
    IF HasLiteral(data, MCE_LID_COVER_OPEN)
    THEN << execute_datapipe("device_inactive_pipe", "FALSE"),
            execute_datapipe("lid_cover_pipe", "COVER_OPEN") >>
    ELSE << execute_datapipe("lid_cover_pipe", "COVER_CLOSED") >>

\* Mutant: the proximity callback generates activity like the cover callbacks
proximity_sensor_iomon_cb_with_activity(data) ==
    IF HasLiteral(data, MCE_PROXIMITY_SENSOR_OPEN)
    THEN << execute_datapipe("device_inactive_pipe", "FALSE"),
            execute_datapipe("proximity_sensor_pipe", "COVER_OPEN") >>
    ELSE << execute_datapipe("proximity_sensor_pipe", "COVER_CLOSED") >>

proximity_sensor_iomon_cb(data) ==
    LET proximity_sensor_state ==
            IF HasLiteral(data, MCE_PROXIMITY_SENSOR_OPEN)
            THEN "COVER_OPEN" ELSE "COVER_CLOSED"
    IN  << execute_datapipe("proximity_sensor_pipe", proximity_sensor_state) >>

\* Mutant: activity is generated on connect only
usb_cable_iomon_cb_connect_only(data) ==
    IF HasLiteral(data, MCE_MUSB_OMAP3_USB_CABLE_CONNECTED)
    THEN << execute_datapipe("device_inactive_pipe", "FALSE"),
            execute_datapipe("usb_cable_pipe", "USB_CABLE_CONNECTED") >>
    ELSE << execute_datapipe("usb_cable_pipe", "USB_CABLE_DISCONNECTED") >>

usb_cable_iomon_cb(data) ==
    LET cable_state ==
            IF HasLiteral(data, MCE_MUSB_OMAP3_USB_CABLE_CONNECTED)
            THEN "USB_CABLE_CONNECTED" ELSE "USB_CABLE_DISCONNECTED"
    IN  << execute_datapipe("device_inactive_pipe", "FALSE"),
           execute_datapipe("usb_cable_pipe", cable_state) >>

lens_cover_iomon_cb(data) ==
    IF HasLiteral(data, MCE_LENS_COVER_OPEN)
    THEN << execute_datapipe("device_inactive_pipe", "FALSE"),
            execute_datapipe("lens_cover_pipe", "COVER_OPEN") >>
    ELSE << execute_datapipe("lens_cover_pipe", "COVER_CLOSED") >>

Callback(cb, data) ==
    CASE cb = "generic_activity_iomon_cb" -> generic_activity_iomon_cb(data)
      [] cb = "camera_launch_button_iomon_cb" -> camera_launch_button_iomon_cb(data)
      [] cb = "lockkey_iomon_cb" -> lockkey_iomon_cb(data)
      [] cb = "kbd_slide_iomon_cb" -> kbd_slide_iomon_cb(data)
      [] cb = "lid_cover_iomon_cb" -> lid_cover_iomon_cb(data)
      [] cb = "proximity_sensor_iomon_cb" -> proximity_sensor_iomon_cb(data)
      [] cb = "usb_cable_iomon_cb" -> usb_cable_iomon_cb(data)
      [] cb = "lens_cover_iomon_cb" -> lens_cover_iomon_cb(data)

-----------------------------------------------------------------------------
(* The interlocks *)

\* Mutant: a failed read is classified like an empty string and published
update_proximity_sensor_state_publish_on_failure(result) ==
    << mce_read_string_from_file("MCE_PROXIMITY_SENSOR_STATE_PATH", result) >>
    \o << execute_datapipe("proximity_sensor_pipe",
                           IF result # READ_FAILED
                              /\ HasLiteral(result, MCE_PROXIMITY_SENSOR_OPEN)
                           THEN "COVER_OPEN" ELSE "COVER_CLOSED") >>
    \o << Ev("return", "update_proximity_sensor_state", "FALSE") >>

\* `result` is what mce_read_string_from_file() gives; status is never set
\* to TRUE, so FALSE is returned on both paths
update_proximity_sensor_state(result) ==
    << mce_read_string_from_file("MCE_PROXIMITY_SENSOR_STATE_PATH", result) >>
    \o (IF result = READ_FAILED THEN << >>
        ELSE << execute_datapipe("proximity_sensor_pipe",
                                 IF HasLiteral(result, MCE_PROXIMITY_SENSOR_OPEN)
                                 THEN "COVER_OPEN" ELSE "COVER_CLOSED") >>)
    \o << Ev("return", "update_proximity_sensor_state", "FALSE") >>

\* Mutant: a visible alarm UI does not count as needing the sensor
update_proximity_monitor_ringing_only(cs, as, result) ==
    IF proximity_sensor_disable_exists = FALSE THEN << >>
    ELSE IF \/ cs = "CALL_STATE_RINGING"
            \/ cs = "CALL_STATE_ACTIVE"
            \/ as = "MCE_ALARM_UI_RINGING_INT32"
    THEN << mce_write_string_to_file("MCE_PROXIMITY_SENSOR_DISABLE_PATH", "0") >>
         \o update_proximity_sensor_state(result)
    ELSE << mce_write_string_to_file("MCE_PROXIMITY_SENSOR_DISABLE_PATH", "1") >>

\* Mutant: the check of proximity_sensor_disable_exists is missing
update_proximity_monitor_ungated(cs, as, result) ==
    IF \/ cs = "CALL_STATE_RINGING"
       \/ cs = "CALL_STATE_ACTIVE"
       \/ as = "MCE_ALARM_UI_VISIBLE_INT32"
       \/ as = "MCE_ALARM_UI_RINGING_INT32"
    THEN << mce_write_string_to_file("MCE_PROXIMITY_SENSOR_DISABLE_PATH", "0") >>
         \o update_proximity_sensor_state(result)
    ELSE << mce_write_string_to_file("MCE_PROXIMITY_SENSOR_DISABLE_PATH", "1") >>

\* Mutant: the state is refreshed before the sensor is enabled
update_proximity_monitor_refresh_first(cs, as, result) ==
    IF proximity_sensor_disable_exists = FALSE THEN << >>
    ELSE IF \/ cs = "CALL_STATE_RINGING"
            \/ cs = "CALL_STATE_ACTIVE"
            \/ as = "MCE_ALARM_UI_VISIBLE_INT32"
            \/ as = "MCE_ALARM_UI_RINGING_INT32"
    THEN update_proximity_sensor_state(result)
         \o << mce_write_string_to_file("MCE_PROXIMITY_SENSOR_DISABLE_PATH", "0") >>
    ELSE << mce_write_string_to_file("MCE_PROXIMITY_SENSOR_DISABLE_PATH", "1") >>

\* cs, as: the values of call_state and alarm_ui_state when it runs
update_proximity_monitor(cs, as, result) ==
    IF proximity_sensor_disable_exists = FALSE THEN << >>
    ELSE IF \/ cs = "CALL_STATE_RINGING"
            \/ cs = "CALL_STATE_ACTIVE"
            \/ as = "MCE_ALARM_UI_VISIBLE_INT32"
            \/ as = "MCE_ALARM_UI_RINGING_INT32"
    THEN << mce_write_string_to_file("MCE_PROXIMITY_SENSOR_DISABLE_PATH", "0") >>
         \o update_proximity_sensor_state(result)
    ELSE << mce_write_string_to_file("MCE_PROXIMITY_SENSOR_DISABLE_PATH", "1") >>

\* Mutant: level-triggered, old_submode is not consulted
submode_trigger_calls_level(submode) ==
    IF BitAnd(submode, MCE_TKLOCK_SUBMODE) # {}
    THEN IF cam_focus_disable_exists = TRUE /\ iomon_id["cam_focus_iomon_id"] # NULL
         THEN << mce_write_string_to_file("MCE_CAM_FOCUS_DISABLE_PATH", "1") >>
         ELSE << >>
    ELSE IF cam_focus_disable_exists = TRUE
         THEN << mce_write_string_to_file("MCE_CAM_FOCUS_DISABLE_PATH", "0") >>
         ELSE << >>

\* Mutant: the falling edge is guarded like the rising edge
submode_trigger_calls_symmetric(submode) ==
    IF BitAnd(submode, MCE_TKLOCK_SUBMODE) # {}
    THEN IF BitAnd(old_submode, MCE_TKLOCK_SUBMODE) = {}
            /\ cam_focus_disable_exists = TRUE
            /\ iomon_id["cam_focus_iomon_id"] # NULL
         THEN << mce_write_string_to_file("MCE_CAM_FOCUS_DISABLE_PATH", "1") >>
         ELSE << >>
    ELSE IF BitAnd(old_submode, MCE_TKLOCK_SUBMODE) # {}
            /\ cam_focus_disable_exists = TRUE
            /\ iomon_id["cam_focus_iomon_id"] # NULL
         THEN << mce_write_string_to_file("MCE_CAM_FOCUS_DISABLE_PATH", "0") >>
         ELSE << >>

\* submode: the new value; old_submode is read before it is overwritten
submode_trigger_calls(submode) ==
    IF BitAnd(submode, MCE_TKLOCK_SUBMODE) # {}
    THEN IF BitAnd(old_submode, MCE_TKLOCK_SUBMODE) = {}
            /\ cam_focus_disable_exists = TRUE
            /\ iomon_id["cam_focus_iomon_id"] # NULL
         THEN << mce_write_string_to_file("MCE_CAM_FOCUS_DISABLE_PATH", "1") >>
         ELSE << >>
    ELSE IF BitAnd(old_submode, MCE_TKLOCK_SUBMODE) # {}
            /\ cam_focus_disable_exists = TRUE
         THEN << mce_write_string_to_file("MCE_CAM_FOCUS_DISABLE_PATH", "0") >>
         ELSE << >>

-----------------------------------------------------------------------------
(* Start-up and shutdown tables *)

Reg(id, path, cb) == [id |-> id, path |-> path, cb |-> cb]

\* mce_switches_init(): the monitors in the order they are registered
Registrations ==
    << Reg("lockkey_iomon_id", "MCE_FLICKER_KEY_STATE_PATH", "lockkey_iomon_cb"),
       Reg("kbd_slide_iomon_id", "MCE_KBD_SLIDE_STATE_PATH", "kbd_slide_iomon_cb"),
       Reg("cam_focus_iomon_id", "MCE_CAM_FOCUS_STATE_PATH",
           "generic_activity_iomon_cb"),
       Reg("cam_launch_iomon_id", "MCE_CAM_LAUNCH_STATE_PATH",
           "camera_launch_button_iomon_cb"),
       Reg("lid_cover_iomon_id", "MCE_LID_COVER_STATE_PATH", "lid_cover_iomon_cb"),
       Reg("proximity_sensor_iomon_id", "MCE_PROXIMITY_SENSOR_STATE_PATH",
           "proximity_sensor_iomon_cb"),
       Reg("musb_omap3_usb_cable_iomon_id", "MCE_MUSB_OMAP3_USB_CABLE_STATE_PATH",
           "usb_cable_iomon_cb"),
       Reg("lens_cover_iomon_id", "MCE_LENS_COVER_STATE_PATH", "lens_cover_iomon_cb"),
       Reg("mmc0_cover_iomon_id", "MCE_MMC0_COVER_STATE_PATH",
           "generic_activity_iomon_cb"),
       Reg("mmc_cover_iomon_id", "MCE_MMC_COVER_STATE_PATH",
           "generic_activity_iomon_cb"),
       Reg("bat_cover_iomon_id", "MCE_BATTERY_COVER_STATE_PATH",
           "generic_activity_iomon_cb") >>

IdVars == { Registrations[i].id : i \in DOMAIN Registrations }

\* mce_switches_exit(): the ids in the order they are unregistered
Unregistrations ==
    << "bat_cover_iomon_id", "mmc_cover_iomon_id", "mmc0_cover_iomon_id",
       "lens_cover_iomon_id", "musb_omap3_usb_cable_iomon_id",
       "proximity_sensor_iomon_id", "lid_cover_iomon_id", "cam_launch_iomon_id",
       "cam_focus_iomon_id", "kbd_slide_iomon_id", "lockkey_iomon_id" >>

\* mce_register_io_monitor_string() for the i-th registration of this start-up:
\* NULL when the source fails to open, else an id no earlier call returned
mce_register_io_monitor_string(i, failed) ==
    IF Registrations[i].path \in failed THEN NULL
    ELSE inits * Len(Registrations) + i

OpenHandles == { m.handle : m \in io_monitors }

-----------------------------------------------------------------------------
(* Initial state: the statics as initialised, nothing registered *)

Init ==
    /\ call_state = "CALL_STATE_INVALID"
    /\ alarm_ui_state = "MCE_ALARM_UI_INVALID_INT32"
    /\ old_submode = MCE_NORMAL_SUBMODE
    /\ cam_focus_disable_exists = FALSE
    /\ proximity_sensor_disable_exists = FALSE
    /\ has_flicker_key = FALSE
    /\ iomon_id = [v \in IdVars |-> NULL]
    /\ io_monitors = {}
    /\ stale_unregisters = {}
    /\ triggers = [p \in {"call_state_pipe", "alarm_ui_state_pipe", "submode_pipe"}
                     |-> 0]
    /\ datapipe = [p \in Pipes |->
                     CASE p = "device_inactive_pipe" -> "TRUE"
                       [] p = "camera_button_pipe" -> "CAMERA_BUTTON_UNPRESSED"
                       [] p = "lockkey_pipe" -> "0"
                       [] p = "usb_cable_pipe" -> "USB_CABLE_DISCONNECTED"
                       [] OTHER -> "COVER_CLOSED"]
    /\ sysfs = [p \in ControlPaths |-> "unwritten"]
    /\ w_ok \in [ControlPaths -> BOOLEAN]
    /\ inits = 0
    /\ trace = << >>
    /\ lastOp = [name |-> "none", source |-> "none", data |-> "none"]
    /\ cam_focus_writes = << >>

-----------------------------------------------------------------------------
(* Actions *)

Op(name, source, data) == [name |-> name, source |-> source, data |-> data]

\* The open monitor m, whose callback is cb, delivers the payload data
Deliver(m, cb, data) ==
    /\ m.cb = cb
    /\ Effects(Callback(cb, data))
    /\ lastOp' = Op(cb, m.path, data)
    /\ UNCHANGED << statics, registry, w_ok >>

GenericActivity ==
    \E m \in io_monitors, data \in Payloads :
        Deliver(m, "generic_activity_iomon_cb", data)

CameraLaunchButton ==
    \E m \in io_monitors, data \in Payloads :
        Deliver(m, "camera_launch_button_iomon_cb", data)

LockKey ==
    \E m \in io_monitors, data \in Payloads : Deliver(m, "lockkey_iomon_cb", data)

KbdSlide ==
    \E m \in io_monitors, data \in Payloads : Deliver(m, "kbd_slide_iomon_cb", data)

LidCover ==
    \E m \in io_monitors, data \in Payloads : Deliver(m, "lid_cover_iomon_cb", data)

ProximitySensor ==
    \E m \in io_monitors, data \in Payloads :
        Deliver(m, "proximity_sensor_iomon_cb", data)

UsbCable ==
    \E m \in io_monitors, data \in Payloads : Deliver(m, "usb_cable_iomon_cb", data)

LensCover ==
    \E m \in io_monitors, data \in Payloads : Deliver(m, "lens_cover_iomon_cb", data)

\* Mutant: the interlock is recomputed for the new value, which is not cached
call_state_trigger_no_store ==
    \E data \in CallStates, result \in ReadOutcomes :
        /\ triggers["call_state_pipe"] > 0
        /\ Effects(update_proximity_monitor(data, alarm_ui_state, result))
        /\ lastOp' = Op("call_state_trigger", "call_state_pipe", data)
        /\ UNCHANGED << statics, registry, w_ok >>

call_state_trigger ==
    \E data \in CallStates, result \in ReadOutcomes :
        /\ triggers["call_state_pipe"] > 0
        /\ call_state' = data
        /\ Effects(update_proximity_monitor(data, alarm_ui_state, result))
        /\ lastOp' = Op("call_state_trigger", "call_state_pipe", data)
        /\ UNCHANGED << alarm_ui_state, old_submode, cam_focus_disable_exists,
                        proximity_sensor_disable_exists, has_flicker_key, iomon_id,
                        registry, w_ok >>

alarm_ui_state_trigger ==
    \E data \in AlarmUiStates, result \in ReadOutcomes :
        /\ triggers["alarm_ui_state_pipe"] > 0
        /\ alarm_ui_state' = data
        /\ Effects(update_proximity_monitor(call_state, data, result))
        /\ lastOp' = Op("alarm_ui_state_trigger", "alarm_ui_state_pipe", data)
        /\ UNCHANGED << call_state, old_submode, cam_focus_disable_exists,
                        proximity_sensor_disable_exists, has_flicker_key, iomon_id,
                        registry, w_ok >>

submode_trigger ==
    \E submode \in Submodes :
        /\ triggers["submode_pipe"] > 0
        /\ Effects(submode_trigger_calls(submode))
        /\ old_submode' = submode
        /\ lastOp' = Op("submode_trigger", "submode_pipe", "submode")
        /\ UNCHANGED << call_state, alarm_ui_state, cam_focus_disable_exists,
                        proximity_sensor_disable_exists, has_flicker_key, iomon_id,
                        registry, w_ok >>

\* Mutant: the sources are opened before the handlers are subscribed and the
\* lid cover pipe is seeded
mce_switches_init_calls_open_first(result) ==
    [i \in DOMAIN Registrations |->
          Ev("mce_register_io_monitor_string", Registrations[i].path,
             Registrations[i].cb)]
    \o << Ev("append_input_trigger_to_datapipe", "call_state_pipe",
             "call_state_trigger"),
          Ev("append_input_trigger_to_datapipe", "alarm_ui_state_pipe",
             "alarm_ui_state_trigger"),
          Ev("append_output_trigger_to_datapipe", "submode_pipe", "submode_trigger"),
          execute_datapipe("lid_cover_pipe", "COVER_OPEN") >>
    \o update_proximity_monitor(call_state, alarm_ui_state, result)
    \o << Ev("g_access", "MCE_PROXIMITY_SENSOR_DISABLE_PATH",
             IF w_ok["MCE_PROXIMITY_SENSOR_DISABLE_PATH"] THEN "0" ELSE "-1"),
          Ev("g_access", "MCE_CAM_FOCUS_DISABLE_PATH",
             IF w_ok["MCE_CAM_FOCUS_DISABLE_PATH"] THEN "0" ELSE "-1"),
          Ev("return", "mce_switches_init", "TRUE") >>

\* Mutant: status is left at its initial FALSE, as a failed start-up would
mce_switches_init_calls_status_unset(result) ==
    << Ev("append_input_trigger_to_datapipe", "call_state_pipe", "call_state_trigger"),
       Ev("append_input_trigger_to_datapipe", "alarm_ui_state_pipe",
          "alarm_ui_state_trigger"),
       Ev("append_output_trigger_to_datapipe", "submode_pipe", "submode_trigger"),
       execute_datapipe("lid_cover_pipe", "COVER_OPEN") >>
    \o [i \in DOMAIN Registrations |->
          Ev("mce_register_io_monitor_string", Registrations[i].path,
             Registrations[i].cb)]
    \o update_proximity_monitor(call_state, alarm_ui_state, result)
    \o << Ev("g_access", "MCE_PROXIMITY_SENSOR_DISABLE_PATH",
             IF w_ok["MCE_PROXIMITY_SENSOR_DISABLE_PATH"] THEN "0" ELSE "-1"),
          Ev("g_access", "MCE_CAM_FOCUS_DISABLE_PATH",
             IF w_ok["MCE_CAM_FOCUS_DISABLE_PATH"] THEN "0" ELSE "-1"),
          Ev("return", "mce_switches_init", "FALSE") >>

\* The external calls of mce_switches_init(), in program order
mce_switches_init_calls(result) ==
    << Ev("append_input_trigger_to_datapipe", "call_state_pipe", "call_state_trigger"),
       Ev("append_input_trigger_to_datapipe", "alarm_ui_state_pipe",
          "alarm_ui_state_trigger"),
       Ev("append_output_trigger_to_datapipe", "submode_pipe", "submode_trigger"),
       execute_datapipe("lid_cover_pipe", "COVER_OPEN") >>
    \o [i \in DOMAIN Registrations |->
          Ev("mce_register_io_monitor_string", Registrations[i].path,
             Registrations[i].cb)]
    \o update_proximity_monitor(call_state, alarm_ui_state, result)
    \o << Ev("g_access", "MCE_PROXIMITY_SENSOR_DISABLE_PATH",
             IF w_ok["MCE_PROXIMITY_SENSOR_DISABLE_PATH"] THEN "0" ELSE "-1"),
          Ev("g_access", "MCE_CAM_FOCUS_DISABLE_PATH",
             IF w_ok["MCE_CAM_FOCUS_DISABLE_PATH"] THEN "0" ELSE "-1"),
          Ev("return", "mce_switches_init", "TRUE") >>

\* One call of mce_switches_init(): `failed` are the sources that fail to
\* open, `result` is what the proximity state file gives if it is read
mce_switches_init_with(failed, result) ==
    LET new_id == [v \in IdVars |->
                     LET i == CHOOSE j \in DOMAIN Registrations :
                                  Registrations[j].id = v
                     IN  mce_register_io_monitor_string(i, failed)]
    IN  /\ inits < MaxInits
        /\ inits' = inits + 1
        /\ triggers' = [p \in DOMAIN triggers |-> triggers[p] + 1]
        /\ iomon_id' = new_id
        /\ io_monitors' = io_monitors \cup
               { [handle |-> new_id[Registrations[i].id],
                  path |-> Registrations[i].path,
                  cb |-> Registrations[i].cb] :
                 i \in { j \in DOMAIN Registrations :
                           new_id[Registrations[j].id] # NULL } }
        /\ Effects(mce_switches_init_calls(result))
        /\ has_flicker_key' =
               IF new_id["lockkey_iomon_id"] # NULL THEN TRUE ELSE has_flicker_key
        /\ proximity_sensor_disable_exists' = w_ok["MCE_PROXIMITY_SENSOR_DISABLE_PATH"]
        /\ cam_focus_disable_exists' = w_ok["MCE_CAM_FOCUS_DISABLE_PATH"]
        /\ lastOp' = Op("mce_switches_init", "none", "none")
        /\ UNCHANGED << call_state, alarm_ui_state, old_submode,
                        stale_unregisters, w_ok >>

mce_switches_init ==
    \E failed \in OpenFailures, result \in ReadOutcomes :
        mce_switches_init_with(failed, result)

\* Mutant: the sources are closed before the listeners are removed
mce_switches_exit_calls_sources_first ==
    [i \in DOMAIN Unregistrations |->
          Ev("mce_unregister_io_monitor", Unregistrations[i],
             IF iomon_id[Unregistrations[i]] = NULL THEN "NULL"
             ELSE IF iomon_id[Unregistrations[i]] \in OpenHandles THEN "open"
             ELSE "stale")]
    \o << Ev("remove_output_trigger_from_datapipe", "submode_pipe", "submode_trigger"),
          Ev("remove_input_trigger_from_datapipe", "alarm_ui_state_pipe",
             "alarm_ui_state_trigger"),
          Ev("remove_input_trigger_from_datapipe", "call_state_pipe",
             "call_state_trigger") >>

\* The external calls of mce_switches_exit(), in program order
mce_switches_exit_calls ==
    << Ev("remove_output_trigger_from_datapipe", "submode_pipe", "submode_trigger"),
       Ev("remove_input_trigger_from_datapipe", "alarm_ui_state_pipe",
          "alarm_ui_state_trigger"),
       Ev("remove_input_trigger_from_datapipe", "call_state_pipe",
          "call_state_trigger") >>
    \o [i \in DOMAIN Unregistrations |->
          Ev("mce_unregister_io_monitor", Unregistrations[i],
             IF iomon_id[Unregistrations[i]] = NULL THEN "NULL"
             ELSE IF iomon_id[Unregistrations[i]] \in OpenHandles THEN "open"
             ELSE "stale")]

mce_switches_exit ==
    LET ids == { iomon_id[Unregistrations[i]] : i \in DOMAIN Unregistrations }
    IN  /\ triggers' = [p \in DOMAIN triggers |->
                          IF triggers[p] > 0 THEN triggers[p] - 1 ELSE 0]
        /\ io_monitors' = { m \in io_monitors : m.handle \notin ids }
        /\ stale_unregisters' =
               stale_unregisters \cup ((ids \ {NULL}) \ OpenHandles)
        /\ Effects(mce_switches_exit_calls)
        /\ lastOp' = Op("mce_switches_exit", "none", "none")
        /\ UNCHANGED << statics, inits, w_ok >>

-----------------------------------------------------------------------------
(* Specifications *)

\* The daemon starts the component once
StartUp == inits = 0 /\ mce_switches_init

\* Start-up and shutdown in any order, up to MaxInits start-ups
Next == mce_switches_init \/ mce_switches_exit

Spec == Init /\ [][Next]_vars

\* One start-up, then the three datapipe triggers
NextInterlock ==
    \/ StartUp
    \/ mce_switches_exit
    \/ call_state_trigger
    \/ alarm_ui_state_trigger
    \/ submode_trigger

SpecInterlock == Init /\ [][NextInterlock]_vars

\* One start-up, then the switch notifications
NextSwitches ==
    \/ StartUp
    \/ GenericActivity
    \/ CameraLaunchButton
    \/ LockKey
    \/ KbdSlide
    \/ LidCover
    \/ ProximitySensor
    \/ UsbCable
    \/ LensCover

\* A device that has both control files
InitSwitches == Init /\ \A p \in ControlPaths : w_ok[p]

SpecSwitches == InitSwitches /\ [][NextSwitches]_vars

\* One start-up, then what can run the proximity refresh or touch the
\* proximity, lock key and activity pipes
NextProximity ==
    \/ StartUp
    \/ call_state_trigger
    \/ alarm_ui_state_trigger
    \/ ProximitySensor
    \/ LockKey
    \/ GenericActivity

SpecProximity == Init /\ [][NextProximity]_vars

\* One start-up in which any set of sources may fail to open, and shutdown
StartUpAnyFailures ==
    /\ inits = 0
    /\ \E failed \in SUBSET AllStatePaths, result \in ReadOutcomes :
           mce_switches_init_with(failed, result)

NextStartUp == StartUpAnyFailures \/ mce_switches_exit

SpecStartUp == Init /\ [][NextStartUp]_vars

\* Start-ups and shutdowns in any order, and the call and alarm triggers
NextRestart ==
    \/ mce_switches_init
    \/ mce_switches_exit
    \/ call_state_trigger
    \/ alarm_ui_state_trigger

SpecRestart == Init /\ [][NextRestart]_vars

-----------------------------------------------------------------------------
(* Vocabulary of the properties *)

PROX_DISABLE == "MCE_PROXIMITY_SENSOR_DISABLE_PATH"

CAM_DISABLE == "MCE_CAM_FOCUS_DISABLE_PATH"

\* The "sensor needed" condition on the cached call and alarm state
SensorNeeded ==
    \/ call_state \in {"CALL_STATE_RINGING", "CALL_STATE_ACTIVE"}
    \/ alarm_ui_state \in {"MCE_ALARM_UI_VISIBLE_INT32", "MCE_ALARM_UI_RINGING_INT32"}

\* The payload p is the literal or begins with it (case-sensitive)
BeginsWith(p, literal) ==
    /\ Len(Text(literal)) <= Len(Text(p))
    /\ SubSeq(Text(p), 1, Len(Text(literal))) = Text(literal)

IsWrite(e) == e.op = "mce_write_string_to_file"

IsPublish(e) == e.op = "execute_datapipe"

\* The control writes, and the publications, among the calls evs
Writes(evs) == SelectSeq(evs, IsWrite)

Publications(evs) == SelectSeq(evs, IsPublish)

WritesTo(path, evs) == { i \in DOMAIN evs : IsWrite(evs[i]) /\ evs[i].target = path }

PublishedOn(pipe, evs) ==
    { i \in DOMAIN evs : IsPublish(evs[i]) /\ evs[i].target = pipe }

Activity == execute_datapipe("device_inactive_pipe", "FALSE")

LockBit(submode) == "MCE_TKLOCK_SUBMODE" \in submode

InterlockHandlers == {"call_state_trigger", "alarm_ui_state_trigger"}

\* The switch kinds that carry a state: source, pipe, active literal, values
Kind(pipe, literal, pos, neg) ==
    [pipe |-> pipe, literal |-> literal, pos |-> pos, neg |-> neg]

StateKinds ==
    [ MCE_LID_COVER_STATE_PATH |->
        Kind("lid_cover_pipe", "open", "COVER_OPEN", "COVER_CLOSED"),
      MCE_KBD_SLIDE_STATE_PATH |->
        Kind("keyboard_slide_pipe", "open", "COVER_OPEN", "COVER_CLOSED"),
      MCE_LENS_COVER_STATE_PATH |->
        Kind("lens_cover_pipe", "open", "COVER_OPEN", "COVER_CLOSED"),
      MCE_PROXIMITY_SENSOR_STATE_PATH |->
        Kind("proximity_sensor_pipe", "open", "COVER_OPEN", "COVER_CLOSED"),
      MCE_MUSB_OMAP3_USB_CABLE_STATE_PATH |->
        Kind("usb_cable_pipe", "connected", "USB_CABLE_CONNECTED",
             "USB_CABLE_DISCONNECTED"),
      MCE_CAM_LAUNCH_STATE_PATH |->
        Kind("camera_button_pipe", "active", "CAMERA_BUTTON_LAUNCH",
             "CAMERA_BUTTON_UNPRESSED"),
      MCE_FLICKER_KEY_STATE_PATH |-> Kind("lockkey_pipe", "closed", "1", "0") ]

CoverSources ==
    {"MCE_LID_COVER_STATE_PATH", "MCE_KBD_SLIDE_STATE_PATH",
     "MCE_LENS_COVER_STATE_PATH"}

GenericSources ==
    {"MCE_CAM_FOCUS_STATE_PATH", "MCE_MMC0_COVER_STATE_PATH",
     "MCE_MMC_COVER_STATE_PATH", "MCE_BATTERY_COVER_STATE_PATH"}

-----------------------------------------------------------------------------
(* C1 *)

\* C1. Interlock convergence: with the proximity disable control present,
\* once a call-state or alarm-state update has been handled, the command last
\* written to the control is "0" when the cached call state is Ringing or
\* Active or the cached alarm state is Visible or Ringing, and "1" otherwise;
\* this holds after every update, whatever the interleaving before it.
InterlockConvergence ==
    (/\ proximity_sensor_disable_exists
     /\ \/ lastOp.name \in InterlockHandlers
        \/ sysfs[PROX_DISABLE] # "unwritten")
    => sysfs[PROX_DISABLE] = (IF SensorNeeded THEN "0" ELSE "1")

\* An alarm update arrived after the call ended: the sensor stays enabled
InterlockConvergenceWitness ==
    /\ proximity_sensor_disable_exists
    /\ lastOp.name = "call_state_trigger"
    /\ call_state = "CALL_STATE_NONE"
    /\ alarm_ui_state = "MCE_ALARM_UI_VISIBLE_INT32"
    /\ sysfs[PROX_DISABLE] = "0"

-----------------------------------------------------------------------------
(* C2 *)

\* C2. Capability gating: a handler writes to the proximity disable control
\* only if proximity_sensor_disable_exists is true when it runs, and to the
\* camera focus disable control only if cam_focus_disable_exists is true when
\* it runs; with the flag false the handler makes no write to that control.
CapabilityGating ==
    [][ /\ WritesTo(PROX_DISABLE, trace') # {} => proximity_sensor_disable_exists
        /\ WritesTo(CAM_DISABLE, trace') # {} => cam_focus_disable_exists ]_vars

\* Without the proximity control a ringing call wrote nothing, while the
\* camera focus control, which exists, was written on tklock
CapabilityGatingWitness ==
    /\ ~proximity_sensor_disable_exists
    /\ cam_focus_disable_exists
    /\ call_state = "CALL_STATE_RINGING"
    /\ sysfs[PROX_DISABLE] = "unwritten"
    /\ lastOp.name = "submode_trigger"
    /\ trace = << mce_write_string_to_file(CAM_DISABLE, "1") >>

-----------------------------------------------------------------------------
(* C3 *)

\* C3. Edge-only camera interlock: with the focus disable control present and
\* the focus source open, submode_trigger writes "1" exactly when the lock bit
\* goes from clear to set, "0" exactly when it goes from set to clear, and
\* makes no call at all when the lock bit of the new submode equals that of
\* the previous one.
EdgeOnlyCameraInterlock ==
    [][ (/\ lastOp'.name = "submode_trigger"
         /\ cam_focus_disable_exists
         /\ iomon_id["cam_focus_iomon_id"] \in OpenHandles)
        => trace' =
             IF LockBit(old_submode') /\ ~LockBit(old_submode)
             THEN << mce_write_string_to_file(CAM_DISABLE, "1") >>
             ELSE IF ~LockBit(old_submode') /\ LockBit(old_submode)
             THEN << mce_write_string_to_file(CAM_DISABLE, "0") >>
             ELSE << >> ]_vars

\* Lock set, cleared and set again: three writes, disable, enable, disable
EdgeOnlyCameraInterlockWitness ==
    /\ lastOp.name = "submode_trigger"
    /\ iomon_id["cam_focus_iomon_id"] \in OpenHandles
    /\ cam_focus_writes = << "1", "0", "1" >>
    /\ sysfs[CAM_DISABLE] = "1"

-----------------------------------------------------------------------------
(* C4 *)

\* C4. Start-up establishes the sensor's initial state: when
\* mce_switches_init has run on a device whose proximity disable control is
\* writable, it has written a command to that control, "0" if the cached
\* call/alarm state needs the sensor and "1" otherwise.
StartUpWritesProximityControl ==
    (lastOp.name = "mce_switches_init" /\ w_ok[PROX_DISABLE])
    => \E i \in DOMAIN trace :
           trace[i] = mce_write_string_to_file(
                          PROX_DISABLE, IF SensorNeeded THEN "0" ELSE "1")

-----------------------------------------------------------------------------
(* C5 *)

\* The calls of update_proximity_monitor (with its refresh) among evs
IsRecomputationCall(e) ==
    \/ IsWrite(e) /\ e.target = PROX_DISABLE
    \/ e.op = "mce_read_string_from_file"
    \/ IsPublish(e) /\ e.target = "proximity_sensor_pipe"
    \/ e.op = "return" /\ e.target = "update_proximity_sensor_state"

\* C5. Enable-then-refresh: every recomputation of the proximity interlock
\* that runs with the control present (by a call-state update, an alarm-state
\* update or a start-up) makes exactly one control write.  When the sensor is
\* needed the write is "0" and comes first, the read of the proximity state
\* file follows it, and what was read is then published on the proximity pipe
\* (Open if it begins with "open", else Closed; nothing if the read failed).
\* When the sensor is not needed the write is "1" and nothing else is done: no
\* read, no publication on the proximity pipe.
EnableThenRefresh ==
    [][ (/\ lastOp'.name \in InterlockHandlers \cup {"mce_switches_init"}
         /\ proximity_sensor_disable_exists)
        => LET calls == SelectSeq(trace', IsRecomputationCall)
           IN  /\ Len(Writes(trace')) = 1
               /\ IF SensorNeeded'
                  THEN /\ Len(calls) >= 3
                       /\ calls[1] = mce_write_string_to_file(PROX_DISABLE, "0")
                       /\ calls[2].op = "mce_read_string_from_file"
                       /\ calls[2].target = "MCE_PROXIMITY_SENSOR_STATE_PATH"
                       /\ Publications(SubSeq(calls, 3, Len(calls))) =
                            IF calls[2].val = READ_FAILED THEN << >>
                            ELSE << execute_datapipe(
                                      "proximity_sensor_pipe",
                                      IF BeginsWith(calls[2].val, "open")
                                      THEN "COVER_OPEN" ELSE "COVER_CLOSED") >>
                  ELSE calls = << mce_write_string_to_file(PROX_DISABLE, "1") >>
       ]_vars

\* A ringing call enabled the sensor, and the refresh that followed the write
\* published Open
EnableThenRefreshWitness ==
    /\ lastOp.name = "call_state_trigger"
    /\ call_state = "CALL_STATE_RINGING"
    /\ Len(trace) >= 3
    /\ trace[1] = mce_write_string_to_file(PROX_DISABLE, "0")
    /\ trace[2] = mce_read_string_from_file("MCE_PROXIMITY_SENSOR_STATE_PATH", "open\n")
    /\ trace[3] = execute_datapipe("proximity_sensor_pipe", "COVER_OPEN")
    /\ datapipe["proximity_sensor_pipe"] = "COVER_OPEN"

-----------------------------------------------------------------------------
(* C6 *)

\* C6. A lid cover, keyboard slide or lens cover notification publishes the
\* classified cover state once on that switch's pipe, and publishes the
\* activity signal (device_inactive = FALSE) if and only if that state is
\* Open; for Closed the state is the only publication.
CoverActivityIffOpen ==
    lastOp.source \in CoverSources
    => LET pipe == StateKinds[lastOp.source].pipe
           state == IF BeginsWith(lastOp.data, "open")
                    THEN "COVER_OPEN" ELSE "COVER_CLOSED"
       IN  /\ Cardinality(PublishedOn(pipe, trace)) = 1
           /\ \A i \in PublishedOn(pipe, trace) : trace[i].val = state
           /\ datapipe[pipe] = state
           /\ IF state = "COVER_OPEN"
              THEN /\ Len(trace) = 2
                   /\ \E i \in DOMAIN trace : trace[i] = Activity
              ELSE /\ Len(trace) = 1
                   /\ PublishedOn("device_inactive_pipe", trace) = {}

\* "closed" on the lid: Closed is published and the device is still inactive
CoverActivityIffOpenWitness ==
    /\ lastOp.source = "MCE_LID_COVER_STATE_PATH"
    /\ lastOp.data = "closed"
    /\ datapipe["lid_cover_pipe"] = "COVER_CLOSED"
    /\ datapipe["device_inactive_pipe"] = "TRUE"

-----------------------------------------------------------------------------
(* C7 *)

\* C7. Proximity and lock key events are no activity: a proximity sensor
\* notification, a lock key notification and an interlock recomputation (with
\* its proximity refresh) leave the activity pipe's value as it was, and every
\* publication they make is on the proximity pipe, respectively the lock key
\* pipe.
NoActivityFromProximityOrLockKey ==
    [][ (lastOp'.name \in {"proximity_sensor_iomon_cb", "lockkey_iomon_cb"}
                            \cup InterlockHandlers)
        => /\ datapipe'["device_inactive_pipe"] = datapipe["device_inactive_pipe"]
           /\ \A i \in DOMAIN trace' :
                 IsPublish(trace'[i])
                 => trace'[i].target =
                      IF lastOp'.name = "lockkey_iomon_cb"
                      THEN "lockkey_pipe" ELSE "proximity_sensor_pipe" ]_vars

\* The proximity sensor reported Open while the device stayed inactive
NoActivityFromProximityOrLockKeyWitness ==
    /\ lastOp.name = "proximity_sensor_iomon_cb"
    /\ trace = << execute_datapipe("proximity_sensor_pipe", "COVER_OPEN") >>
    /\ datapipe["device_inactive_pipe"] = "TRUE"

-----------------------------------------------------------------------------
(* C8 *)

\* C8. A USB cable or camera launch button notification publishes the
\* activity signal exactly once whatever the payload, and the classified
\* state exactly once on the USB cable pipe, respectively the camera button
\* pipe.
UsbAndCameraAlwaysActivity ==
    lastOp.source \in {"MCE_MUSB_OMAP3_USB_CABLE_STATE_PATH",
                       "MCE_CAM_LAUNCH_STATE_PATH"}
    => LET k == StateKinds[lastOp.source]
       IN  /\ Len(trace) = 2
           /\ Cardinality(PublishedOn("device_inactive_pipe", trace)) = 1
           /\ \A i \in PublishedOn("device_inactive_pipe", trace) :
                 trace[i] = Activity
           /\ Cardinality(PublishedOn(k.pipe, trace)) = 1
           /\ \A i \in PublishedOn(k.pipe, trace) :
                 trace[i].val = IF BeginsWith(lastOp.data, k.literal)
                                THEN k.pos ELSE k.neg
           /\ datapipe["device_inactive_pipe"] = "FALSE"

\* A USB disconnect counts as activity
UsbAndCameraAlwaysActivityWitness ==
    /\ lastOp.source = "MCE_MUSB_OMAP3_USB_CABLE_STATE_PATH"
    /\ lastOp.data = "disconnected"
    /\ datapipe["usb_cable_pipe"] = "USB_CABLE_DISCONNECTED"
    /\ datapipe["device_inactive_pipe"] = "FALSE"
    /\ Activity \in { trace[i] : i \in DOMAIN trace }

-----------------------------------------------------------------------------
(* C9 *)

\* C9. A notification from the camera focus button, an MMC cover or the
\* battery cover makes one call, the activity publication, whatever the
\* payload, and changes the cached value of no switch state pipe.
GenericSourcesOnlyActivity ==
    [][ lastOp'.source \in GenericSources
        => /\ trace' = << Activity >>
           /\ \A p \in Pipes \ {"device_inactive_pipe"} :
                 datapipe'[p] = datapipe[p] ]_vars

\* The battery cover reported "open" after the lens cover was seen open:
\* the device became active, the switch states are as they were
GenericSourcesOnlyActivityWitness ==
    /\ lastOp.source = "MCE_BATTERY_COVER_STATE_PATH"
    /\ lastOp.data = "open"
    /\ trace = << Activity >>
    /\ datapipe["device_inactive_pipe"] = "FALSE"
    /\ datapipe["keyboard_slide_pipe"] = "COVER_CLOSED"
    /\ datapipe["lens_cover_pipe"] = "COVER_OPEN"

-----------------------------------------------------------------------------
(* C10 *)

\* C10. Prefix classification: for each of the seven switch kinds that carry
\* a state and every payload, the state published (and cached) on the kind's
\* pipe is the positive one if and only if the payload is the kind's active
\* literal or begins with it, case-sensitively; any other payload, the empty
\* one included, gives the negative state.
PrefixClassification ==
    lastOp.source \in DOMAIN StateKinds
    => LET k == StateKinds[lastOp.source]
           state == IF BeginsWith(lastOp.data, k.literal) THEN k.pos ELSE k.neg
       IN  /\ PublishedOn(k.pipe, trace) # {}
           /\ \A i \in PublishedOn(k.pipe, trace) : trace[i].val = state
           /\ datapipe[k.pipe] = state

\* "open" followed by a newline is Open for the lid cover
PrefixClassificationWitness ==
    /\ lastOp.source = "MCE_LID_COVER_STATE_PATH"
    /\ lastOp.data = "open\n"
    /\ datapipe["lid_cover_pipe"] = "COVER_OPEN"

-----------------------------------------------------------------------------
(* C11 *)

\* What a notification from `source` carrying payload p is translated to,
\* written from the payload alone: sources that carry no state give activity,
\* the others give the value their payload is classified as, preceded by
\* activity for the covers when open and for the cable and the camera button
\* always, and without activity for the proximity sensor and the lock key
Translation(source, p) ==
    IF source \in GenericSources THEN << Activity >>
    ELSE LET k == StateKinds[source]
             positive == BeginsWith(p, k.literal)
             value == execute_datapipe(k.pipe, IF positive THEN k.pos ELSE k.neg)
             active ==
                 \/ source \in CoverSources /\ positive
                 \/ source \in {"MCE_MUSB_OMAP3_USB_CABLE_STATE_PATH",
                                "MCE_CAM_LAUNCH_STATE_PATH"}
         IN  IF active THEN << Activity, value >> ELSE << value >>

\* C11. Translation is history-independent and idempotent: the calls a
\* translator makes for a notification are those given by its source and
\* payload alone, whatever was delivered before and whatever the pipes hold;
\* and a notification that repeats the previous one, same source and same
\* payload, makes the same calls again and leaves every cached pipe value as it
\* was.
HistoryIndependentTranslation ==
    [][ lastOp'.source \in AllStatePaths
        => /\ trace' = Translation(lastOp'.source, lastOp'.data)
           /\ lastOp' = lastOp => (trace' = trace /\ datapipe' = datapipe)
           /\ UNCHANGED << statics, sysfs, registry >> ]_vars

\* The lid reported closed while its pipe already held closed, after other
\* switches had reported: the closed value was published again, alone
HistoryIndependentTranslationWitness ==
    /\ lastOp.source = "MCE_LID_COVER_STATE_PATH"
    /\ lastOp.data = "closed"
    /\ trace = << execute_datapipe("lid_cover_pipe", "COVER_CLOSED") >>
    /\ datapipe["lid_cover_pipe"] = "COVER_CLOSED"
    /\ datapipe["usb_cable_pipe"] = "USB_CABLE_CONNECTED"
    /\ datapipe["proximity_sensor_pipe"] = "COVER_OPEN"
    /\ datapipe["device_inactive_pipe"] = "FALSE"

-----------------------------------------------------------------------------
(* C12 *)

PROX_STATE == "MCE_PROXIMITY_SENSOR_STATE_PATH"

\* The read of the proximity state file failed in the calls evs
ReadFailedIn(evs) ==
    \E i \in DOMAIN evs :
        evs[i] = mce_read_string_from_file(PROX_STATE, READ_FAILED)

\* C12. Refresh failure is non-fatal and changes nothing: when a call-state or
\* alarm-state handler recomputes the interlock and the proximity state file
\* cannot be read, the handler has stored its value and written "0" to the
\* disable control, the file is read once and not again, nothing is published
\* on any pipe so the cached proximity value stays, update_proximity_sensor_state
\* returns FALSE, and no other call follows.
RefreshFailureChangesNothing ==
    [][ (lastOp'.name \in InterlockHandlers /\ ReadFailedIn(trace'))
        => /\ trace' = << mce_write_string_to_file(PROX_DISABLE, "0"),
                          mce_read_string_from_file(PROX_STATE, READ_FAILED),
                          Ev("return", "update_proximity_sensor_state", "FALSE") >>
           /\ datapipe' = datapipe
           /\ sysfs'[PROX_DISABLE] = (IF w_ok[PROX_DISABLE] THEN "0" ELSE sysfs[PROX_DISABLE])
           /\ lastOp'.data = (IF lastOp'.name = "call_state_trigger"
                              THEN call_state' ELSE alarm_ui_state')
           /\ SensorNeeded'
           /\ UNCHANGED << registry, iomon_id >> ]_vars

\* An earlier refresh had published open; the alarm then rang, the read
\* failed, and the proximity pipe still holds open
RefreshFailureChangesNothingWitness ==
    /\ lastOp.name = "alarm_ui_state_trigger"
    /\ alarm_ui_state = "MCE_ALARM_UI_RINGING_INT32"
    /\ trace = << mce_write_string_to_file(PROX_DISABLE, "0"),
                  mce_read_string_from_file(PROX_STATE, READ_FAILED),
                  Ev("return", "update_proximity_sensor_state", "FALSE") >>
    /\ datapipe["proximity_sensor_pipe"] = "COVER_OPEN"
    /\ sysfs[PROX_DISABLE] = "0"

-----------------------------------------------------------------------------
(* C13 *)

\* The values update_proximity_sensor_state returned in the calls evs
RefreshResults(evs) ==
    { evs[i].val : i \in { j \in DOMAIN evs :
                             /\ evs[j].op = "return"
                             /\ evs[j].target = "update_proximity_sensor_state" } }

\* C13. update_proximity_sensor_state returns TRUE when the state file was
\* read and the classified state published, and FALSE only when the read
\* failed. The code initialises status to FALSE (line 327) and never assigns
\* it, so this does not hold: a performed refresh returns FALSE as well.
RefreshResultTellsSuccess ==
    RefreshResults(trace) # {}
    => RefreshResults(trace) =
           (IF PublishedOn("proximity_sensor_pipe", trace) # {}
            THEN {"TRUE"} ELSE {"FALSE"})

-----------------------------------------------------------------------------
(* C14 *)

\* The positions in evs at which the source `path` is opened
OpensOf(path, evs) ==
    { i \in DOMAIN evs : /\ evs[i].op = "mce_register_io_monitor_string"
                         /\ evs[i].target = path }

\* The handlers start-up subscribes, each on its pipe
Subscriptions ==
    { Ev("append_input_trigger_to_datapipe", "call_state_pipe", "call_state_trigger"),
      Ev("append_input_trigger_to_datapipe", "alarm_ui_state_pipe",
         "alarm_ui_state_trigger"),
      Ev("append_output_trigger_to_datapipe", "submode_pipe", "submode_trigger") }

\* C14. Start-up never fails: whichever sources fail to open, a start-up
\* subscribes the three interlock handlers, tries to open every one of the
\* eleven sources once, and returns TRUE; a source that failed to open has a
\* NULL id and no monitor, so none of its notifications is delivered, and a
\* source that opened has its monitor with its own callback.
StartUpNeverFails ==
    lastOp.name = "mce_switches_init"
    => /\ \A path \in AllStatePaths : Cardinality(OpensOf(path, trace)) = 1
       /\ Subscriptions \subseteq { trace[i] : i \in DOMAIN trace }
       /\ \A p \in DOMAIN triggers : triggers[p] = 1
       /\ trace[Len(trace)] = Ev("return", "mce_switches_init", "TRUE")
       /\ \A i \in DOMAIN Registrations :
             LET r == Registrations[i]
                 open == { m \in io_monitors : m.path = r.path }
             IN  IF iomon_id[r.id] = NULL
                 THEN open = {}
                 ELSE open = { [handle |-> iomon_id[r.id], path |-> r.path,
                                cb |-> r.cb] }

\* Only the lid cover and the USB cable sources failed to open
StartUpNeverFailsWitness ==
    /\ lastOp.name = "mce_switches_init"
    /\ \A i \in DOMAIN Registrations :
          iomon_id[Registrations[i].id] = NULL
          <=> Registrations[i].path \in {"MCE_LID_COVER_STATE_PATH",
                                         "MCE_MUSB_OMAP3_USB_CABLE_STATE_PATH"}
    /\ Cardinality(io_monitors) = Len(Registrations) - 2
    /\ trace[Len(trace)] = Ev("return", "mce_switches_init", "TRUE")

-----------------------------------------------------------------------------
(* C15 *)

\* C15. After any start-up has_flicker_key is TRUE iff the lock-key source
\* opened in that start-up. The code only ever assigns TRUE (lines 520-521):
\* a start-up in which the source fails to open leaves the flag as an earlier
\* start-up set it, so this does not hold.
FlickerKeyIffLockKeyOpened ==
    lastOp.name = "mce_switches_init"
    => (has_flicker_key <=> iomon_id["lockkey_iomon_id"] # NULL)

\* The other half of C15 holds: has_flicker_key and the two capability flags
\* change in start-up steps only
FlagsWrittenAtStartUpOnly ==
    [][ lastOp'.name # "mce_switches_init"
        => UNCHANGED << has_flicker_key, proximity_sensor_disable_exists,
                        cam_focus_disable_exists >> ]_vars

-----------------------------------------------------------------------------
(* C16 *)

\* The handles the id variables hold, which are those shutdown will close
RecordedHandles == { iomon_id[v] : v \in IdVars } \ {NULL}

\* One start-up is in effect: each handler is subscribed once and every open
\* monitor is held in an id variable
StartedOnce ==
    /\ \A p \in DOMAIN triggers : triggers[p] = 1
    /\ OpenHandles \subseteq RecordedHandles

\* C16. Shutdown is the mirror of start-up: mce_switches_exit removes the
\* submode output listener, then the alarm-state input listener, then the
\* call-state input listener, and only then closes the sources, in the
\* reverse of the order start-up opens them; after it none of the handles
\* held in the id variables is open, and when it ends one start-up no handler
\* stays subscribed and no monitor stays open, so no trigger and no callback
\* can run.
ShutdownMirrorsStartUp ==
    [][ lastOp'.name = "mce_switches_exit"
        => /\ SubSeq(trace', 1, 3) =
                << Ev("remove_output_trigger_from_datapipe", "submode_pipe",
                      "submode_trigger"),
                   Ev("remove_input_trigger_from_datapipe", "alarm_ui_state_pipe",
                      "alarm_ui_state_trigger"),
                   Ev("remove_input_trigger_from_datapipe", "call_state_pipe",
                      "call_state_trigger") >>
           /\ Len(trace') = 3 + Len(Registrations)
           /\ \A i \in DOMAIN Registrations :
                 /\ trace'[3 + i].op = "mce_unregister_io_monitor"
                 /\ trace'[3 + i].target =
                        Registrations[Len(Registrations) + 1 - i].id
           /\ RecordedHandles \cap OpenHandles' = {}
           /\ StartedOnce => /\ \A p \in DOMAIN triggers : triggers'[p] = 0
                             /\ io_monitors' = {}
           /\ UNCHANGED << statics, datapipe, sysfs >> ]_vars

\* The second start-up of a process, begun after a shutdown, was shut down
\* in its turn: open sources were closed and nothing is left
ShutdownMirrorsStartUpWitness ==
    /\ lastOp.name = "mce_switches_exit"
    /\ inits = 2
    /\ \E i \in DOMAIN trace : trace[i].val = "open"
    /\ \A p \in DOMAIN triggers : triggers[p] = 0
    /\ io_monitors = {}
    /\ stale_unregisters = {}

-----------------------------------------------------------------------------
(* C17 *)

\* C17. Over any sequence of mce_switches_init and mce_switches_exit calls
\* each source has at most one open monitor, no handle is closed twice, and
\* every open handle is recorded in an id variable for teardown. The code
\* does not keep this: start-up overwrites the ids without closing what they
\* held (lines 451-516), and shutdown leaves the closed handles in the ids
\* (lines 550-560).
HandlesOwnedOnce ==
    /\ \A path \in AllStatePaths :
          Cardinality({ m \in io_monitors : m.path = path }) <= 1
    /\ stale_unregisters = {}
    /\ OpenHandles \subseteq RecordedHandles

-----------------------------------------------------------------------------
(* C18 *)

\* C18. Cached interlock state: a dispatched call-state publication leaves
\* call_state equal to the published value, a dispatched alarm-state
\* publication leaves alarm_ui_state equal to the published value, and no
\* other step changes either, so each cached value is the one most recently
\* published on its channel; the call handler leaves alarm_ui_state and
\* old_submode as they were, and the alarm handler call_state and old_submode.
CachedStateIsLastPublished ==
    [][ /\ lastOp'.name = "call_state_trigger"
           => /\ call_state' = lastOp'.data
              /\ UNCHANGED << alarm_ui_state, old_submode >>
        /\ lastOp'.name = "alarm_ui_state_trigger"
           => /\ alarm_ui_state' = lastOp'.data
              /\ UNCHANGED << call_state, old_submode >>
        /\ lastOp'.name \notin InterlockHandlers
           => UNCHANGED << call_state, alarm_ui_state >> ]_vars

\* The call became active, the alarm rang and the lock was set, in that
\* order or another; the alarm update was the last and kept the other two
CachedStateIsLastPublishedWitness ==
    /\ lastOp = Op("alarm_ui_state_trigger", "alarm_ui_state_pipe",
                   "MCE_ALARM_UI_RINGING_INT32")
    /\ alarm_ui_state = "MCE_ALARM_UI_RINGING_INT32"
    /\ call_state = "CALL_STATE_ACTIVE"
    /\ old_submode = MCE_TKLOCK_SUBMODE

-----------------------------------------------------------------------------
(* C19 *)

\* The camera focus source was opened by the start-up in effect
FocusSourceOpen == iomon_id["cam_focus_iomon_id"] # NULL

\* C19. The camera-focus interlock is asymmetric: when the lock bit goes from
\* clear to set, submode_trigger writes "1" to the focus disable control if
\* the control exists and the focus source is open, and writes nothing if
\* either is missing; when the lock bit goes from set to clear it writes "0"
\* if the control exists, whether or not the focus source is open; old_submode
\* starts with no flag set, so the first update with the lock bit set is a
\* rising edge.
AsymmetricCameraInterlock ==
    /\ old_submode = MCE_NORMAL_SUBMODE
    /\ [][ IF lastOp'.name # "submode_trigger" THEN UNCHANGED old_submode
           ELSE
              /\ (~LockBit(old_submode) /\ LockBit(old_submode'))
                 => trace' = IF cam_focus_disable_exists /\ FocusSourceOpen
                             THEN << mce_write_string_to_file(CAM_DISABLE, "1") >>
                             ELSE << >>
              /\ (LockBit(old_submode) /\ ~LockBit(old_submode'))
                 => trace' = IF cam_focus_disable_exists
                             THEN << mce_write_string_to_file(CAM_DISABLE, "0") >>
                             ELSE << >> ]_vars

\* The focus source failed to open: setting the lock wrote nothing, clearing
\* it wrote "0", the only write the control has received
AsymmetricCameraInterlockWitness ==
    /\ lastOp.name = "submode_trigger"
    /\ ~FocusSourceOpen
    /\ cam_focus_disable_exists
    /\ ~LockBit(old_submode)
    /\ trace = << mce_write_string_to_file(CAM_DISABLE, "0") >>
    /\ cam_focus_writes = << "0" >>

-----------------------------------------------------------------------------
(* C20 *)

\* C20. Start-up ordering: mce_switches_init subscribes the call-state, the
\* alarm-state and the submode handler first, then publishes open on the lid
\* cover pipe, and only after that opens the sources; it publishes no
\* activity. The lid cover pipe therefore holds open when start-up ends, and
\* keeps it until a lid cover notification is translated: no other step
\* changes the pipe.
StartUpOrdering ==
    [][ /\ lastOp'.name = "mce_switches_init"
           => /\ SubSeq(trace', 1, 3) =
                   << Ev("append_input_trigger_to_datapipe", "call_state_pipe",
                         "call_state_trigger"),
                      Ev("append_input_trigger_to_datapipe", "alarm_ui_state_pipe",
                         "alarm_ui_state_trigger"),
                      Ev("append_output_trigger_to_datapipe", "submode_pipe",
                         "submode_trigger") >>
              /\ trace'[4] = execute_datapipe("lid_cover_pipe", "COVER_OPEN")
              /\ \A path \in AllStatePaths :
                    /\ OpensOf(path, trace') # {}
                    /\ \A i \in OpensOf(path, trace') : i > 4
              /\ PublishedOn("device_inactive_pipe", trace') = {}
              /\ datapipe'["device_inactive_pipe"] = datapipe["device_inactive_pipe"]
              /\ datapipe'["lid_cover_pipe"] = "COVER_OPEN"
        /\ lastOp'.name \notin {"mce_switches_init", "lid_cover_iomon_cb"}
           => datapipe'["lid_cover_pipe"] = datapipe["lid_cover_pipe"] ]_vars

\* The keyboard slide and the proximity sensor have reported, the lid cover
\* has not: its pipe holds the open published at start-up, and no activity
\* has been published
StartUpOrderingWitness ==
    /\ lastOp.source = "MCE_KBD_SLIDE_STATE_PATH"
    /\ lastOp.data = "closed"
    /\ datapipe["proximity_sensor_pipe"] = "COVER_OPEN"
    /\ datapipe["lid_cover_pipe"] = "COVER_OPEN"
    /\ datapipe["device_inactive_pipe"] = "TRUE"

====
